---- MODULE Spec2Model ----
(***************************************************************************)
(* A model of src/include/OpenImageIO/unittest.h: the process-wide         *)
(* UnitTestFailureCounter, the OIIO_CHECK_* macros and process teardown.   *)
(*                                                                         *)
(* Numbers are integers.  The operands of OIIO_CHECK_EQUAL_APPROX are      *)
(* fixed-point numbers (the value times 10000); the float factor 0.001f    *)
(* is the exact ratio 1/1000, so floating-point rounding is not modelled.  *)
(* Standard output is a sequence of blocks, one block per `std::cout <<`   *)
(* statement, and a block is the sequence of the items inserted.           *)
(***************************************************************************)
EXTENDS Integers, Sequences, FiniteSets, TLC

VARIABLES
    proc,        \* "running", or "exited" once std::exit has ended the process
    exitCode,    \* the status the process ended with, -1 while it runs
    m_failures,  \* UnitTestFailureCounter::m_failures of unit_test_failures
    out,         \* what has been written to std::cout
    k,           \* statements (checks, counter operations) executed so far
    results,     \* the value of the condition of every check executed
    last,        \* the last statement: its operands, the counter and the
                 \* length of the output before it, its result and how often
                 \* it evaluated each operand expression
    mode,        \* "main": one thread; "seq" / "conc": two threads
    tpc,         \* where each thread is inside its OIIO_CHECK_EQUAL
    treg,        \* the value of m_failures each thread has read
    tin          \* the operands of each thread's check

vars == <<proc, exitCode, m_failures, out, k, results, last, mode, tpc, treg, tin>>

(* ----------------------------- bounds ---------------------------------- *)

\* checks (or counter operations) one program executes
MaxChecks == 2
\* scalar operands are 0..MaxVal
MaxVal == 1
\* thresholds are 0..MaxEps
MaxEps == 1
\* deltas passed to operator+= are -1..MaxDelta
MaxDelta == 1
\* direct operations on the counter one program executes
MaxOps == 4

Vals == 0 .. MaxVal
EpsVals == 0 .. MaxEps
Deltas == -1 .. MaxDelta
\* fixed-point operands of EQUAL_APPROX: 0, 1.0, 1.0009, 1.002 and -1.0
ApproxVals == {0, 10000, 10009, 10020, 0 - 10000}
\* two-lane vectors for the SIMD checks
SimdVecs == {<<0, 0>>, <<0, 1>>, <<1, 1>>}
Threads == {1, 2}

Kinds == {"ASSERT", "EQUAL", "EQUAL_THRESH", "EQUAL_APPROX", "NE", "LT", "GT",
          "LE", "GE", "SIMD_EQUAL", "SIMD_EQUAL_THRESH"}

(* ----------------------------- helpers --------------------------------- *)

\* simd::abs / std::abs
abs(x) == IF x < 0 THEN 0 - x ELSE x

\* simd::max / std::max
max(x, y) == IF x < y THEN y ELSE x

\* simd all(): every lane of a boolean vector is true
all(b) == \A i \in DOMAIN b : b[i]

\* lane-wise x == y of two vectors
SimdEq(x, y) == [i \in DOMAIN x |-> x[i] = y[i]]

\* lane-wise abs(x - y) of two vectors
SimdAbsDiff(x, y) == [i \in DOMAIN x |-> abs(x[i] - y[i])]

\* lane-wise v < eps (eps broadcast to every lane)
SimdLess(v, eps) == [i \in DOMAIN v |-> v[i] < eps]

\* operator<< of a value to std::cout: its text
Show(v) == ToString(v)

\* occurrences of e in the sequence s
RECURSIVE Count(_, _)
Count(e, s) == IF s = <<>> THEN 0
               ELSE (IF Head(s) = e THEN 1 ELSE 0) + Count(e, Tail(s))

(* ------------------------ UnitTestFailureCounter ----------------------- *)

PrefixIncrementSkip(m) == m
PrefixIncrementTwice(m) == m + 2

\* operator++(): ++m_failures
PrefixIncrement(m) == m + 1

PostfixIncrementDown(m) == m - 1

\* operator++(int): m_failures++ (the stored value afterwards)
PostfixIncrement(m) == m + 1

\* operator+=(int i): m_failures += i
PlusAssignValue(m, i) == m + i

\* operator int(): return m_failures
ToInt(m) == m

ExitStatusCount(m) == m

\* the argument of std::exit in the destructor: (m_failures != 0) as an int
ExitStatus(m) == IF m # 0 THEN 1 ELSE 0

\* the block the destructor prints
Banner(m) == IF m # 0 THEN <<"ansi:red", "ERRORS!\n">>
                      ELSE <<"ansi:green", "OK\n">>

\* ~UnitTestFailureCounter() of a counter holding m, standard output being o:
\* the output afterwards, whether it called std::exit, and with what status
Destructor(m, o) == [out |-> Append(o, Banner(m)),
                     exits |-> m # 0,
                     status |-> ExitStatus(m)]

\* std::exit(status): the static unit_test_failures (holding m) is destroyed
\* unless its destructor has already begun, then the process ends.  The
\* language leaves std::exit called from a static destructor undefined; the
\* C libraries the project is built with continue with the remaining
\* handlers and end the process with the new status, which is what the
\* destructor's std::exit relies on and what is modelled here.
RECURSIVE StdExit(_, _, _, _)
StdExit(status, m, o, destroyed) ==
    IF destroyed THEN [out |-> o, code |-> status]
    ELSE LET d == Destructor(m, o)
         IN  IF d.exits THEN StdExit(d.status, m, d.out, TRUE)
             ELSE [out |-> d.out, code |-> status]

(* ------------------- the conditions of the macros ---------------------- *)

\* OIIO_CHECK_ASSERT: (x)
CondAssert(x) == x # 0

\* OIIO_CHECK_EQUAL: ((x) == (y))
CondEqual(x, y) == x = y

CondEqualThreshStrict(x, y, eps) == abs(x - y) < eps

\* OIIO_CHECK_EQUAL_THRESH: (std::abs((x) - (y)) <= eps)
CondEqualThresh(x, y, eps) == abs(x - y) <= eps

equal_approx_strict(x, y) == 1000 * abs(x - y) < max(abs(x), abs(y))

\* pvt::equal_approx: abs(x - y) <= 0.001f * max(abs(x), abs(y)),
\* both sides multiplied by 1000
equal_approx(x, y) == 1000 * abs(x - y) <= max(abs(x), abs(y))

\* OIIO_CHECK_NE: ((x) != (y))
CondNE(x, y) == x # y

\* OIIO_CHECK_LT: ((x) < (y))
CondLT(x, y) == x < y

\* OIIO_CHECK_GT: ((x) > (y))
CondGT(x, y) == x > y

\* OIIO_CHECK_LE: ((x) <= (y))
CondLE(x, y) == x <= y

\* OIIO_CHECK_GE: ((x) >= (y))
CondGE(x, y) == x >= y

\* OIIO_CHECK_SIMD_EQUAL: all((x) == (y))
CondSimdEqual(x, y) == all(SimdEq(x, y))

CondSimdEqualThreshInclusive(x, y, eps) ==
    all([i \in DOMAIN x |-> abs(x[i] - y[i]) <= eps])

\* OIIO_CHECK_SIMD_EQUAL_THRESH: all(abs((x) - (y)) < (eps))
CondSimdEqualThresh(x, y, eps) == all(SimdLess(SimdAbsDiff(x, y), eps))

\* the condition of the conditional expression each macro expands to
Cond(kind, x, y, eps) ==
    CASE kind = "ASSERT" -> CondAssert(x)
      [] kind = "EQUAL" -> CondEqual(x, y)
      [] kind = "EQUAL_THRESH" -> CondEqualThresh(x, y, eps)
      [] kind = "EQUAL_APPROX" -> equal_approx(x, y)
      [] kind = "NE" -> CondNE(x, y)
      [] kind = "LT" -> CondLT(x, y)
      [] kind = "GT" -> CondGT(x, y)
      [] kind = "LE" -> CondLE(x, y)
      [] kind = "GE" -> CondGE(x, y)
      [] kind = "SIMD_EQUAL" -> CondSimdEqual(x, y)
      [] kind = "SIMD_EQUAL_THRESH" -> CondSimdEqualThresh(x, y, eps)

\* the operand expressions the condition evaluates, in the macro's text
CondEvals(kind) ==
    CASE kind = "ASSERT" -> <<"x">>
      [] kind \in {"EQUAL_THRESH", "SIMD_EQUAL_THRESH"} -> <<"x", "y", "eps">>
      [] OTHER -> <<"x", "y">>

MsgEvalsOnce(kind) == <<>>

\* the operand expressions the failure message evaluates, in the macro's text
MsgEvals(kind) ==
    CASE kind = "ASSERT" -> <<>>
      [] kind \in {"EQUAL_THRESH", "EQUAL_APPROX"} -> <<"x", "y", "x", "y">>
      [] OTHER -> <<"x", "y">>

\* how often one check evaluates the operand expression e
NumEvals(e, kind, passed) ==
    Count(e, CondEvals(kind) \o (IF passed THEN <<>> ELSE MsgEvals(kind)))

\* the comparison the message shows between #x and #y
OpText(kind) ==
    CASE kind = "NE" -> " != "
      [] kind = "LT" -> " < "
      [] kind = "GT" -> " > "
      [] kind = "LE" -> " <= "
      [] kind = "GE" -> " >= "
      [] OTHER -> " == "

\* what every failure message starts with
MsgHead == <<"ansi:red,bold", "__FILE__", ":", "__LINE__", ":\n", "FAILED: ",
             "ansi:normal">>

MessageNoValues(kind, x, y) == MsgHead \o <<"#x", OpText(kind), "#y", "\n">>

\* the block a failing check inserts into std::cout
Message(kind, x, y) ==
    CASE kind = "ASSERT" -> MsgHead \o <<"#x", "\n">>
      [] kind = "EQUAL_THRESH" ->
           MsgHead \o <<"#x", OpText(kind), "#y", "\n",
                        "\tvalues were '", Show(x), "' and '", Show(y), "'",
                        ", diff was ", Show(abs(x - y)), "\n">>
      [] kind = "EQUAL_APPROX" ->
           MsgHead \o <<"#x", OpText(kind), "#y", "\n",
                        "\tvalues were '", Show(x), "' and '", Show(y), "'",
                        ", diff was ", Show(x - y), "\n">>
      [] OTHER ->
           MsgHead \o <<"#x", OpText(kind), "#y", "\n",
                        "\tvalues were '", Show(x), "' and '", Show(y), "'\n">>

\* the operands a program may pass to each macro: <<x, y, eps>>, with 0 for
\* an operand the macro does not take
Inputs(kind) ==
    CASE kind = "ASSERT" -> {<<x, 0, 0>> : x \in Vals}
      [] kind = "EQUAL_THRESH" -> Vals \X Vals \X EpsVals
      [] kind = "EQUAL_APPROX" -> {<<x, y, 0>> : x \in ApproxVals, y \in ApproxVals}
      [] kind = "SIMD_EQUAL" -> {<<x, y, 0>> : x \in SimdVecs, y \in SimdVecs}
      [] kind = "SIMD_EQUAL_THRESH" -> SimdVecs \X SimdVecs \X EpsVals
      [] OTHER -> {<<x, y, 0>> : x \in Vals, y \in Vals}

(* ------------------------------ state ---------------------------------- *)

\* nothing has been executed yet
NoOp == [op |-> "none", kind |-> "none", x |-> 0, y |-> 0, eps |-> 0,
         before |-> 0, outBefore |-> 0, ret |-> 0, nx |-> 0, ny |-> 0,
         neps |-> 0]

\* the state after static initialisation: UnitTestFailureCounter() sets
\* m_failures to 0; main has not run
Init ==
    /\ proc = "running"
    /\ exitCode = -1
    /\ m_failures = 0
    /\ out = <<>>
    /\ k = 0
    /\ results = <<>>
    /\ last = NoOp
    /\ mode = "main"
    /\ tpc = [t \in Threads |-> "idle"]
    /\ treg = [t \in Threads |-> 0]
    /\ tin = [t \in Threads |-> <<0, 0>>]

(* ----------------------------- actions --------------------------------- *)

\* one OIIO_CHECK_* macro executed by main
Check(kind, x, y, eps) ==
    /\ mode = "main"
    /\ proc = "running"
    /\ k < MaxChecks
    /\ LET passed == Cond(kind, x, y, eps)
       IN  /\ out' = IF passed THEN out ELSE Append(out, Message(kind, x, y))
           /\ m_failures' = IF passed THEN m_failures
                                      ELSE PrefixIncrement(m_failures)
           /\ results' = Append(results, passed)
           /\ last' = [op |-> "check", kind |-> kind, x |-> x, y |-> y,
                       eps |-> eps, before |-> m_failures,
                       outBefore |-> Len(out), ret |-> 0,
                       nx |-> NumEvals("x", kind, passed),
                       ny |-> NumEvals("y", kind, passed),
                       neps |-> NumEvals("eps", kind, passed)]
    /\ k' = k + 1
    /\ UNCHANGED <<proc, exitCode, mode, tpc, treg, tin>>

CheckStep == \E kind \in Kinds : \E in \in Inputs(kind) :
                 Check(kind, in[1], in[2], in[3])

\* main returns 0: the runtime calls std::exit(0), which destroys the static
\* unit_test_failures
MainReturn ==
    /\ mode = "main"
    /\ proc = "running"
    /\ LET r == StdExit(0, m_failures, out, FALSE)
       IN  /\ out' = r.out
           /\ exitCode' = r.code
    /\ proc' = "exited"
    /\ last' = [NoOp EXCEPT !.op = "return", !.before = m_failures,
                            !.outBefore = Len(out)]
    /\ UNCHANGED <<m_failures, k, results, mode, tpc, treg, tin>>

Next == CheckStep \/ MainReturn

\* a program that is a sequence of checks, then returns from main
Spec == Init /\ [][Next]_vars

(* ---------------- the counter's operations, called directly ------------ *)

\* ++unit_test_failures
PrefixInc ==
    /\ mode = "main"
    /\ proc = "running"
    /\ k < MaxOps
    /\ m_failures' = PrefixIncrement(m_failures)
    /\ last' = [NoOp EXCEPT !.op = "prefix", !.before = m_failures,
                            !.outBefore = Len(out),
                            !.ret = PrefixIncrement(m_failures)]
    /\ k' = k + 1
    /\ UNCHANGED <<proc, exitCode, out, results, mode, tpc, treg, tin>>

\* unit_test_failures++
PostfixInc ==
    /\ mode = "main"
    /\ proc = "running"
    /\ k < MaxOps
    /\ m_failures' = PostfixIncrement(m_failures)
    /\ last' = [NoOp EXCEPT !.op = "postfix", !.before = m_failures,
                            !.outBefore = Len(out), !.ret = m_failures]
    /\ k' = k + 1
    /\ UNCHANGED <<proc, exitCode, out, results, mode, tpc, treg, tin>>

\* unit_test_failures += i.  The operator returns a UnitTestFailureCounter by
\* value: the copy holds the new count and is destroyed at the end of the
\* full expression, so ~UnitTestFailureCounter() runs on it there.
PlusAssign(i) ==
    /\ mode = "main"
    /\ proc = "running"
    /\ k < MaxOps
    /\ LET m2 == PlusAssignValue(m_failures, i)
           d == Destructor(m2, out)
           r == StdExit(d.status, m2, d.out, FALSE)
       IN  /\ m_failures' = m2
           /\ last' = [NoOp EXCEPT !.op = "plus", !.x = i,
                                   !.before = m_failures,
                                   !.outBefore = Len(out), !.ret = m2]
           /\ IF d.exits
                 THEN /\ out' = r.out
                      /\ exitCode' = r.code
                      /\ proc' = "exited"
                 ELSE /\ out' = d.out
                      /\ UNCHANGED <<exitCode, proc>>
    /\ k' = k + 1
    /\ UNCHANGED <<results, mode, tpc, treg, tin>>

PlusAssignStep == \E i \in Deltas : PlusAssign(i)

\* int(unit_test_failures)
Convert ==
    /\ mode = "main"
    /\ proc = "running"
    /\ k < MaxOps
    /\ last' = [NoOp EXCEPT !.op = "int", !.before = m_failures,
                            !.outBefore = Len(out), !.ret = ToInt(m_failures)]
    /\ k' = k + 1
    /\ UNCHANGED <<proc, exitCode, m_failures, out, results, mode, tpc, treg, tin>>

NextOps == PrefixInc \/ PostfixInc \/ PlusAssignStep \/ Convert \/ MainReturn

\* a program that calls the counter's operations, then returns from main
SpecOps == Init /\ [][NextOps]_vars

NextAll == CheckStep \/ PrefixInc \/ PostfixInc \/ PlusAssignStep \/ Convert
           \/ MainReturn

\* a program that mixes checks and the counter's operations
SpecAll == Init /\ [][NextAll]_vars

(* ------------- two threads, one failing check each --------------------- *)

\* operand pairs that make OIIO_CHECK_EQUAL fail
FailingPairs == {p \in Vals \X Vals : ~CondEqual(p[1], p[2])}

\* "seq": thread 2 starts its check when thread 1 has finished its own
\* "conc": the two threads run their checks unsynchronised
InitThreads ==
    /\ proc = "running"
    /\ exitCode = -1
    /\ m_failures = 0
    /\ out = <<>>
    /\ k = 0
    /\ results = <<>>
    /\ last = NoOp
    /\ mode \in {"seq", "conc"}
    /\ tpc = [t \in Threads |-> "cond"]
    /\ treg = [t \in Threads |-> 0]
    /\ tin \in [Threads -> FailingPairs]

\* thread t may take a step
MayRun(t) ==
    /\ mode \in {"seq", "conc"}
    /\ mode = "seq" => \A u \in Threads : u < t => tpc[u] = "done"

\* the condition of OIIO_CHECK_EQUAL is evaluated
TCond(t) ==
    /\ MayRun(t)
    /\ tpc[t] = "cond"
    /\ tpc' = [tpc EXCEPT ![t] = IF CondEqual(tin[t][1], tin[t][2])
                                    THEN "done" ELSE "print"]
    /\ UNCHANGED <<proc, exitCode, m_failures, out, k, results, last, mode,
                   treg, tin>>

\* the failure message is inserted into std::cout
TPrint(t) ==
    /\ MayRun(t)
    /\ tpc[t] = "print"
    /\ out' = Append(out, Message("EQUAL", tin[t][1], tin[t][2]))
    /\ tpc' = [tpc EXCEPT ![t] = "load"]
    /\ UNCHANGED <<proc, exitCode, m_failures, k, results, last, mode, treg, tin>>

\* ++m_failures, first half: the plain int is read
TLoad(t) ==
    /\ MayRun(t)
    /\ tpc[t] = "load"
    /\ treg' = [treg EXCEPT ![t] = m_failures]
    /\ tpc' = [tpc EXCEPT ![t] = "store"]
    /\ UNCHANGED <<proc, exitCode, m_failures, out, k, results, last, mode, tin>>

\* ++m_failures, second half: the incremented value is written back
TStore(t) ==
    /\ MayRun(t)
    /\ tpc[t] = "store"
    /\ m_failures' = PrefixIncrement(treg[t])
    /\ tpc' = [tpc EXCEPT ![t] = "done"]
    /\ UNCHANGED <<proc, exitCode, out, k, results, last, mode, treg, tin>>

NextThreads == \E t \in Threads : TCond(t) \/ TPrint(t) \/ TLoad(t) \/ TStore(t)

SpecThreads == InitThreads /\ [][NextThreads]_vars

(* ------------------------ vocabulary of the claims --------------------- *)

\* the number of checks recorded in s whose condition was false
Failed(s) == Cardinality({i \in DOMAIN s : ~s[i]})

\* the last step was a check, and it recorded a failure / recorded nothing
LastCheckFailed == last.op = "check" /\ m_failures = last.before + 1
LastCheckPassed == last.op = "check" /\ m_failures = last.before

\* the block the last step wrote (when it wrote one)
LastBlock == out[Len(out)]

\* the item e occurs in block b
Has(b, e) == \E i \in DOMAIN b : b[i] = e

IsOKBanner(b) == Has(b, "OK\n")
IsErrorBanner(b) == Has(b, "ERRORS!\n")

\* banners printed so far
NumBanners == Cardinality({i \in DOMAIN out : IsOKBanner(out[i]) \/ IsErrorBanner(out[i])})

\* block b shows the runtime values x and y
ValuesShown(b, x, y) ==
    \E i \in 1 .. Len(b) - 3 : /\ b[i] = "\tvalues were '"
                               /\ b[i + 1] = ToString(x)
                               /\ b[i + 2] = "' and '"
                               /\ b[i + 3] = ToString(y)

\* block b shows a difference / the difference d
AnyDiffShown(b) == Has(b, ", diff was ")
DiffShown(b, d) ==
    \E i \in 1 .. Len(b) - 1 : b[i] = ", diff was " /\ b[i + 1] = ToString(d)

\* block b names the file and the line of the check
LocationShown(b) == Has(b, "__FILE__") /\ Has(b, "__LINE__")

(* ------------------------------ claims --------------------------------- *)

\* C1: in a program that is a sequence of checks every check is executed
\* whatever failed before it: a check leaves the process running, a failing
\* check raises the counter by exactly one and a passing check leaves it
\* unchanged, so after k checks the counter is the number of false
\* conditions among them; the process ends only by main returning.
C1_ChecksNeverAbort ==
    /\ Len(results) = k
    /\ m_failures = Failed(results)
    /\ last.op = "check" =>
          /\ proc = "running"
          /\ exitCode = -1
          /\ m_failures = last.before + (IF results[k] THEN 0 ELSE 1)
    /\ proc = "exited" => last.op = "return"

\* a second check ran, and failed, after a first failing check
C1_Witness ==
    /\ k = 2
    /\ ~results[1] /\ ~results[2]
    /\ m_failures = 2
    /\ proc = "running"

\* C2: once main has returned after a sequence of checks, the exit code is 0
\* and the banner is OK when no check failed, the exit code is 1 and the
\* banner is ERRORS! when at least one failed, whatever the count; exactly
\* one banner was printed.
C2_ExitCodeAndBanner ==
    proc = "exited" =>
        /\ NumBanners = 1
        /\ m_failures = 0 => exitCode = 0 /\ IsOKBanner(LastBlock)
                             /\ ~IsErrorBanner(LastBlock)
        /\ m_failures > 0 => exitCode = 1 /\ IsErrorBanner(LastBlock)
                             /\ ~IsOKBanner(LastBlock)

\* two checks failed and the process ended with exit code 1, not 2
C2_Witness ==
    /\ proc = "exited"
    /\ m_failures = 2
    /\ exitCode = 1
    /\ IsErrorBanner(LastBlock)

\* C3: the teardown behaviour runs exactly once, and only when the process
\* ends normally: while the program runs no banner has been printed, and a
\* process that has ended did so by main returning and printed one banner.
C3_TeardownOnlyAtEnd ==
    /\ proc = "running" => NumBanners = 0
    /\ proc = "exited" => last.op = "return" /\ NumBanners = 1

\* C4 as stated: no public operation of the counter, += i for any int i
\* included, lowers the stored count, and conversion to int leaves it
\* unchanged.
C4_NeverDecreases ==
    /\ last.op \in {"prefix", "postfix", "plus", "int"} => m_failures >= last.before
    /\ last.op = "int" => m_failures = last.before

\* C4 amended: prefix ++, postfix ++ and += i with i >= 0 never lower the
\* stored count; += i with i < 0 lowers it by -i; conversion to int returns
\* the count and leaves it unchanged.
C4_NeverDecreasesNonNegativeDelta ==
    /\ last.op \in {"prefix", "postfix"} => m_failures > last.before
    /\ last.op = "plus" /\ last.x >= 0 => m_failures >= last.before
    /\ last.op = "plus" /\ last.x < 0 => m_failures < last.before
    /\ last.op = "int" => m_failures = last.before /\ last.ret = m_failures

\* a postfix increment of a counter that already counted a failure
C4_Witness ==
    /\ last.op = "postfix"
    /\ last.before = 1
    /\ m_failures = 2

\* C5 as stated: a passing check writes nothing and changes nothing; every
\* failing check writes exactly one block with the file and line, the source
\* text of the operands, their runtime values and, for the threshold and
\* difference checks, the computed difference.
C5_DiagnosticBlock ==
    /\ LastCheckPassed => Len(out) = last.outBefore
    /\ LastCheckFailed =>
          /\ Len(out) = last.outBefore + 1
          /\ LocationShown(LastBlock)
          /\ Has(LastBlock, "#x")
          /\ IF last.kind = "ASSERT"
                THEN Has(LastBlock, ToString(last.x))
                ELSE /\ Has(LastBlock, "#y")
                     /\ ValuesShown(LastBlock, last.x, last.y)
          /\ last.kind \in {"EQUAL_THRESH", "EQUAL_APPROX", "SIMD_EQUAL_THRESH"}
                => AnyDiffShown(LastBlock)

\* C5 amended: a passing check writes nothing and changes nothing; every
\* failing check writes exactly one block with the file and line and the
\* source text of x; every check but ASSERT also shows the source text of y
\* and the runtime values of x and y; EQUAL_THRESH also shows |x - y| and
\* EQUAL_APPROX x - y; ASSERT shows no value and SIMD_EQUAL_THRESH (like
\* the remaining checks) shows no difference.
C5_DiagnosticBlockPerKind ==
    /\ LastCheckPassed => Len(out) = last.outBefore
    /\ LastCheckFailed =>
          /\ Len(out) = last.outBefore + 1
          /\ LocationShown(LastBlock)
          /\ Has(LastBlock, "#x")
          /\ IF last.kind = "ASSERT"
                THEN /\ ~Has(LastBlock, "#y")
                     /\ ~Has(LastBlock, ToString(last.x))
                ELSE /\ Has(LastBlock, "#y")
                     /\ ValuesShown(LastBlock, last.x, last.y)
          /\ last.kind = "EQUAL_THRESH" =>
                \/ DiffShown(LastBlock, last.x - last.y) /\ last.x >= last.y
                \/ DiffShown(LastBlock, last.y - last.x) /\ last.x < last.y
          /\ last.kind = "EQUAL_APPROX" => DiffShown(LastBlock, last.x - last.y)
          /\ last.kind \notin {"EQUAL_THRESH", "EQUAL_APPROX"}
                => ~AnyDiffShown(LastBlock)

\* a failing SIMD_EQUAL_THRESH wrote a block that shows no difference
C5_Witness ==
    /\ LastCheckFailed
    /\ last.kind = "SIMD_EQUAL_THRESH"
    /\ ValuesShown(LastBlock, last.x, last.y)
    /\ ~AnyDiffShown(LastBlock)

\* the predicate each check is documented to test (EQUAL_THRESH and
\* EQUAL_APPROX are the subject of C7 and C8)
Documented(kind, x, y, eps) ==
    CASE kind = "ASSERT" -> ~(x = 0)
      [] kind = "EQUAL" -> x = y
      [] kind = "NE" -> ~(x = y)
      [] kind = "LT" -> y - x >= 1
      [] kind = "GT" -> x - y >= 1
      [] kind = "LE" -> y - x >= 0
      [] kind = "GE" -> x - y >= 0
      [] kind = "SIMD_EQUAL" -> ~(\E i \in 1 .. Len(x) : x[i] # y[i])
      [] kind = "SIMD_EQUAL_THRESH" ->
           ~(\E i \in 1 .. Len(x) : x[i] - y[i] >= eps \/ y[i] - x[i] >= eps)

\* C6: a check records a failure if and only if its documented predicate is
\* false, and records nothing if and only if it is true; for
\* SIMD_EQUAL_THRESH the comparison with eps is strict in every lane.
C6_FailsIffPredicateFalse ==
    last.op = "check" /\ last.kind \notin {"EQUAL_THRESH", "EQUAL_APPROX"} =>
        /\ LastCheckFailed <=> ~Documented(last.kind, last.x, last.y, last.eps)
        /\ LastCheckPassed <=> Documented(last.kind, last.x, last.y, last.eps)

\* SIMD_EQUAL_THRESH failed on a lane whose difference equals eps exactly
C6_Witness ==
    /\ LastCheckFailed
    /\ last.kind = "SIMD_EQUAL_THRESH"
    /\ last.x = <<0, 0>> /\ last.y = <<0, 1>> /\ last.eps = 1

\* C7: OIIO_CHECK_EQUAL_THRESH(x, y, eps) passes if and only if
\* |x - y| <= eps: it passes when |x - y| = eps and fails when
\* |x - y| = eps + 1.
C7_ThreshInclusive ==
    last.op = "check" /\ last.kind = "EQUAL_THRESH" =>
        /\ LastCheckPassed <=> (last.x - last.y <= last.eps /\ last.y - last.x <= last.eps)
        /\ LastCheckFailed <=> (last.x - last.y > last.eps \/ last.y - last.x > last.eps)
        /\ (last.x - last.y = last.eps \/ last.y - last.x = last.eps) => LastCheckPassed
        /\ (last.x - last.y = last.eps + 1 \/ last.y - last.x = last.eps + 1)
              => LastCheckFailed

\* EQUAL_THRESH passed with a difference of exactly eps = 1
C7_Witness ==
    /\ LastCheckPassed
    /\ last.kind = "EQUAL_THRESH"
    /\ last.eps = 1
    /\ last.y - last.x = 1

\* the larger of the magnitudes of x and y
Magnitude(x, y) ==
    CHOOSE m \in {x, 0 - x, y, 0 - y} : \A n \in {x, 0 - x, y, 0 - y} : n <= m

\* C8: OIIO_CHECK_EQUAL_APPROX(x, y) passes if and only if
\* 1000 * |x - y| <= max(|x|, |y|); x = y = 0 passes, (1.0, 1.0009) passes,
\* (1.0, 1.002) fails, and swapping x and y does not change the result.
C8_ApproxRelative ==
    last.op = "check" /\ last.kind = "EQUAL_APPROX" =>
        /\ LastCheckPassed <=> /\ 1000 * (last.x - last.y) <= Magnitude(last.x, last.y)
                               /\ 1000 * (last.y - last.x) <= Magnitude(last.x, last.y)
        /\ LastCheckFailed <=> ~LastCheckPassed
        /\ last.x = 0 /\ last.y = 0 => LastCheckPassed
        /\ last.x = 10000 /\ last.y = 10009 => LastCheckPassed
        /\ last.x = 10000 /\ last.y = 10020 => LastCheckFailed
        /\ LastCheckPassed <=> equal_approx(last.y, last.x)

\* EQUAL_APPROX(1.0, 1.0009) passed
C8_Witness ==
    /\ LastCheckPassed
    /\ last.kind = "EQUAL_APPROX"
    /\ last.x = 10000 /\ last.y = 10009

\* both threads have finished their check
AllDone == \A t \in Threads : tpc[t] = "done"

\* C9: two failing checks run on one thread after the other always leave
\* the counter at 2; run by two unsynchronised threads they leave it at 1 or
\* 2, because the increment is a read followed by a write.
C9_LostUpdate ==
    AllDone => /\ m_failures \in {1, 2}
               /\ mode = "seq" => m_failures = 2
               /\ Len(out) = 2

\* two concurrent failing checks, two messages, and a counter of 1
C9_Witness ==
    /\ mode = "conc"
    /\ AllDone
    /\ Len(out) = 2
    /\ m_failures = 1

\* C10: a passing check evaluates each operand expression once; a failing
\* EQUAL, NE, LT, GT, LE, GE, SIMD_EQUAL or SIMD_EQUAL_THRESH evaluates x and
\* y twice each; a failing EQUAL_THRESH or EQUAL_APPROX evaluates them three
\* times each; ASSERT evaluates x once either way.  So x or y is evaluated
\* more than once exactly when a two-operand check fails.
C10_OperandEvaluations ==
    last.op = "check" =>
        /\ last.kind = "ASSERT" => last.nx = 1 /\ last.ny = 0
        /\ last.kind # "ASSERT" /\ LastCheckPassed => last.nx = 1 /\ last.ny = 1
        /\ last.kind \in {"EQUAL_THRESH", "EQUAL_APPROX"} /\ LastCheckFailed
              => last.nx = 3 /\ last.ny = 3
        /\ last.kind \notin {"ASSERT", "EQUAL_THRESH", "EQUAL_APPROX"} /\ LastCheckFailed
              => last.nx = 2 /\ last.ny = 2
        /\ (last.nx > 1 \/ last.ny > 1) <=> (last.kind # "ASSERT" /\ LastCheckFailed)

\* a failing EQUAL_THRESH evaluated x and y three times each
C10_Witness ==
    /\ LastCheckFailed
    /\ last.kind = "EQUAL_THRESH"
    /\ last.nx = 3 /\ last.ny = 3

====
